---------------------------- MODULE Spec2Model ----------------------------
(***************************************************************************)
(* A model of urlz (src/urlz/request.py): the immutable request tuple, its *)
(* URL codec, the derivation operations, the execution layer with its      *)
(* cached accessors, and the lazily created shared transport handle.       *)
(*                                                                         *)
(* Python objects are modelled with identity: a request instance is an     *)
(* index into insts, a dict object is an index into heap, and a field that *)
(* holds a dict holds its index.  An optional value is <<>> (None) or      *)
(* <<x>>.  Text is a TLA+ string, handled character by character.          *)
(***************************************************************************)
EXTENDS Integers, Sequences, FiniteSets, TLC

VARIABLES
    insts,       \* the request instances created so far, by identity
    heap,        \* the dict objects created so far, by identity
    idict,       \* idict[i]: the instance __dict__ of insts[i]
    last,        \* the operation that ran last: its arguments, its result, and
                 \* what it found: the instances and dicts, or calls[i]
    http,        \* the class attribute Urllib3Request._http: <<>> or <<handle>>
    handles,     \* how many PoolManager objects have been created
    calls,       \* calls[i]: how insts[i] was made and what has run on it, counted
    pc,          \* pc[t]: where thread t is inside the http property
    got          \* got[t]: the handles thread t's reads of http returned

vars == <<insts, heap, idict, last, http, handles, calls, pc, got>>

None == <<>>
Some(x) == <<x>>

(***************************************************************************)
(* Bounds of the model.                                                    *)
(***************************************************************************)
MaxInst == 3
MaxExecInst == 2
MaxAccess == 3
MaxPathInst == 2
MaxPathLen == 3
NThreads == 2
MaxReads == 2

(***************************************************************************)
(* Text: the str methods the code uses.                                    *)
(***************************************************************************)
At(s, i) == SubSeq(s, i, i)

\* s[n:] and s[:n], for n >= 0: a slice past the end is cut at the end
Drop(s, n) == IF n >= Len(s) THEN "" ELSE SubSeq(s, n + 1, Len(s))

Take(s, n) == IF n >= Len(s) THEN s ELSE SubSeq(s, 1, n)

StartsWith(s, p) == Len(p) <= Len(s) /\ Take(s, Len(p)) = p

\* str.find(sub) + 1: the 1-based place of the first occurrence, 0 if none
Find(s, sub) ==
    LET hits == {i \in 1..(Len(s) - Len(sub) + 1) : SubSeq(s, i, i + Len(sub) - 1) = sub}
    IN  IF hits = {} THEN 0 ELSE CHOOSE i \in hits : \A j \in hits : i <= j

\* str.rfind(sub) + 1
RFind(s, sub) ==
    LET hits == {i \in 1..(Len(s) - Len(sub) + 1) : SubSeq(s, i, i + Len(sub) - 1) = sub}
    IN  IF hits = {} THEN 0 ELSE CHOOSE i \in hits : \A j \in hits : i >= j

Contains(s, sub) == Find(s, sub) # 0

\* str.rstrip(c): every trailing c removed
RStrip(s, c) ==
    LET keep == {n \in 0..Len(s) : \A i \in (n + 1)..Len(s) : At(s, i) = c}
    IN  Take(s, CHOOSE n \in keep : \A m \in keep : n <= m)

\* str.lstrip(c): every leading c removed
LStrip(s, c) ==
    LET cut == {n \in 0..Len(s) : \A i \in 1..n : At(s, i) = c}
    IN  Drop(s, CHOOSE n \in cut : \A m \in cut : n >= m)


(***************************************************************************)
(* A dict is its items in insertion order, keys unique: <<k, v>> pairs.    *)
(***************************************************************************)
Keys(d) == {d[i][1] : i \in 1..Len(d)}

\* d[k], for k a key of d
Lookup(d, k) == d[CHOOSE i \in 1..Len(d) : d[i][1] = k][2]

\* d[k] = v: an existing key keeps its place, a new key goes last
SetItem(d, k, v) ==
    IF k \in Keys(d)
    THEN [i \in 1..Len(d) |-> IF d[i][1] = k THEN <<k, v>> ELSE d[i]]
    ELSE Append(d, <<k, v>>)

\* an update that keeps the value of a key d already has
RECURSIVE UpdateKeepingOld(_, _)
UpdateKeepingOld(d, e) ==
    IF e = <<>> THEN d
    ELSE UpdateKeepingOld(IF Head(e)[1] \in Keys(d) THEN d
                          ELSE SetItem(d, Head(e)[1], Head(e)[2]), Tail(e))

\* d.update(e) and dict(pairs): the items of e set one after another
RECURSIVE Update(_, _)
Update(d, e) ==
    IF e = <<>> THEN d
    ELSE Update(SetItem(d, Head(e)[1], Head(e)[2]), Tail(e))

\* dict equality: the same keys with the same values, in any order
DictEq(d, e) ==
    /\ Keys(d) = Keys(e)
    /\ \A k \in Keys(d) : Lookup(d, k) = Lookup(e, k)

(***************************************************************************)
(* The urllib functions the codec calls, on the characters this model      *)
(* uses: letters, digits and '.' are unreserved.                           *)
(***************************************************************************)
Digits == "0123456789"

SchemeText == "abcdefghijklmnopqrstuvwxyzABCDEFGHIJKLMNOPQRSTUVWXYZ0123456789+-."

SchemeChars == {At(SchemeText, i) : i \in 1..Len(SchemeText)}

UsesNetloc == {"http", "https"}

LowerChar(c) ==
    LET i == Find("ABCDEFGHIJKLMNOPQRSTUVWXYZ", c)
    IN  IF i = 0 THEN c ELSE At("abcdefghijklmnopqrstuvwxyz", i)

RECURSIVE Lower(_)
Lower(s) == IF s = "" THEN "" ELSE LowerChar(At(s, 1)) \o Lower(Drop(s, 1))

\* int(s, 10) for a string of digits
RECURSIVE ParseInt(_)
ParseInt(s) ==
    IF s = "" THEN 0
    ELSE 10 * ParseInt(Take(s, Len(s) - 1)) + (Find(Digits, At(s, Len(s))) - 1)

\* '%s' % n for n >= 0
RECURSIVE IntToStr(_)
IntToStr(n) ==
    IF n < 10 THEN At(Digits, n + 1)
    ELSE IntToStr(n \div 10) \o At(Digits, (n % 10) + 1)

\* quote_plus, one character
QuoteChar(c) ==
    CASE c = " " -> "+"
      [] c = "&" -> "%26"
      [] c = "=" -> "%3D"
      [] c = "+" -> "%2B"
      [] c = "%" -> "%25"
      [] c = "/" -> "%2F"
      [] c = "?" -> "%3F"
      [] c = "#" -> "%23"
      [] OTHER -> c

RECURSIVE QuotePlus(_)
QuotePlus(s) == IF s = "" THEN "" ELSE QuoteChar(At(s, 1)) \o QuotePlus(Drop(s, 1))

Escapes == {"26", "3D", "3d", "2B", "2b", "25", "2F", "2f", "3F", "3f", "23", "20"}

Unescape(h) ==
    CASE h = "26" -> "&"
      [] h \in {"3D", "3d"} -> "="
      [] h \in {"2B", "2b"} -> "+"
      [] h = "25" -> "%"
      [] h \in {"2F", "2f"} -> "/"
      [] h \in {"3F", "3f"} -> "?"
      [] h = "23" -> "#"
      [] h = "20" -> " "

\* unquote: %XX decoded, anything else kept
RECURSIVE Unquote(_)
Unquote(s) ==
    IF s = "" THEN ""
    ELSE IF At(s, 1) = "%" /\ Len(s) >= 3 /\ SubSeq(s, 2, 3) \in Escapes
         THEN Unescape(SubSeq(s, 2, 3)) \o Unquote(Drop(s, 3))
         ELSE At(s, 1) \o Unquote(Drop(s, 1))

\* s.replace('+', ' ')
RECURSIVE PlusToSpace(_)
PlusToSpace(s) ==
    IF s = "" THEN ""
    ELSE (IF At(s, 1) = "+" THEN " " ELSE At(s, 1)) \o PlusToSpace(Drop(s, 1))

\* s.split(sep), sep one character
RECURSIVE Split(_, _)
Split(s, sep) ==
    LET i == Find(s, sep)
    IN  IF i = 0 THEN <<s>> ELSE <<Take(s, i - 1)>> \o Split(Drop(s, i), sep)

\* parse_qsl(qs): fields without '=' and fields with a blank value are dropped
RECURSIVE QslPairs(_)
QslPairs(fields) ==
    IF fields = <<>> THEN <<>>
    ELSE LET f == Head(fields)
             i == Find(f, "=")
             name == Unquote(PlusToSpace(Take(f, i - 1)))
             value == Unquote(PlusToSpace(Drop(f, i)))
         IN  (IF f = "" \/ i = 0 \/ Drop(f, i) = "" THEN <<>> ELSE <<(<<name, value>>)>>)
             \o QslPairs(Tail(fields))

parse_qsl(qs) == QslPairs(Split(qs, "&"))

\* urlencode(d): quote_plus(k)=quote_plus(v) joined with '&', in the dict's order
RECURSIVE urlencode(_)
urlencode(d) ==
    IF d = <<>> THEN ""
    ELSE QuotePlus(Head(d)[1]) \o "=" \o QuotePlus(Head(d)[2])
         \o (IF Tail(d) = <<>> THEN "" ELSE "&" \o urlencode(Tail(d)))

\* the first place (1-based) of '/', '?' or '#' at or after place from, else Len + 1
NetlocEnd(s, from) ==
    LET hits == {i \in from..Len(s) : At(s, i) \in {"/", "?", "#"}}
    IN  IF hits = {} THEN Len(s) + 1 ELSE CHOOSE i \in hits : \A j \in hits : i <= j

\* text up to the first sep, all of it where there is none
Before(s, sep) == IF Find(s, sep) = 0 THEN s ELSE Take(s, Find(s, sep) - 1)

\* text after the first sep, none where there is no sep
After(s, sep) == IF Find(s, sep) = 0 THEN "" ELSE Drop(s, Find(s, sep))

\* text after the last sep, all of it where there is none
AfterLast(s, sep) == Drop(s, RFind(s, sep))

\* _splitparams(path)[0]: the path without the ;params of its last segment
PathOnly(r) ==
    IF Contains(AfterLast(r, "/"), ";")
    THEN Take(r, RFind(r, "/")) \o Before(AfterLast(r, "/"), ";")
    ELSE r

\* the hostname, port, username and password properties of a parse result
parsed_hostname(netloc) == Lower(Before(AfterLast(netloc, "@"), ":"))

parsed_port(netloc) == After(AfterLast(netloc, "@"), ":")

parsed_username(netloc) == Before(Take(netloc, RFind(netloc, "@") - 1), ":")

parsed_password(netloc) == After(Take(netloc, RFind(netloc, "@") - 1), ":")

\* the parse result, from the pieces urlparse has split the url into
ParseResult(scheme, netloc, r) ==
    [scheme   |-> scheme,
     path     |-> PathOnly(Before(r, "?")),
     query    |-> After(r, "?"),
     hostname |-> IF parsed_hostname(netloc) = "" THEN None ELSE Some(parsed_hostname(netloc)),
     port     |-> IF parsed_port(netloc) = "" THEN None ELSE Some(ParseInt(parsed_port(netloc))),
     username |-> IF ~Contains(netloc, "@") THEN None ELSE Some(parsed_username(netloc)),
     password |-> IF ~Contains(netloc, "@") \/ ~Contains(Take(netloc, RFind(netloc, "@") - 1), ":")
                  THEN None ELSE Some(parsed_password(netloc))]

\* urlparse, after the scheme: '//' starts the netloc, '#' the fragment
ParseNetloc(scheme, r) ==
    IF Take(r, 2) = "//"
    THEN ParseResult(scheme, SubSeq(r, 3, NetlocEnd(r, 3) - 1),
                     Before(Drop(r, NetlocEnd(r, 3) - 1), "#"))
    ELSE ParseResult(scheme, "", Before(r, "#"))

\* urlparse(url): the text before the first ':' is the scheme where it is
\* made of scheme characters
urlparse(url) ==
    IF Find(url, ":") > 1 /\ \A i \in 1..(Find(url, ":") - 1) : At(url, i) \in SchemeChars
    THEN ParseNetloc(Lower(Before(url, ":")), After(url, ":"))
    ELSE ParseNetloc("", url)

\* urlunparse((scheme, netloc, path, '', query, ''))
urlunparse(scheme, netloc, path, query) ==
    LET u1 == IF netloc # "" \/ (scheme \in UsesNetloc /\ Take(path, 2) # "//")
              THEN "//" \o netloc \o (IF path # "" /\ Take(path, 1) # "/" THEN "/" ELSE "") \o path
              ELSE path
        u2 == IF scheme # "" THEN scheme \o ":" \o u1 ELSE u1
    IN  IF query # "" THEN u2 \o "?" \o query ELSE u2

(***************************************************************************)
(* RequestTuple and RequestURL.                                            *)
(***************************************************************************)
Fields == <<"method", "host", "path", "params", "headers", "body",
            "username", "password", "port", "protocol">>

FieldSet == {Fields[n] : n \in 1..Len(Fields)}

\* a keyword argument, or the default of the signature
Arg(kw, name, default) == IF name \in DOMAIN kw THEN kw[name] ELSE default

\* kwargs.update(extra)
Overlay(kw, extra) ==
    [k \in DOMAIN kw \cup DOMAIN extra |-> IF k \in DOMAIN extra THEN extra[k] ELSE kw[k]]

\* `ref or {}`: None and an empty dict are both falsy and give a new dict
OrNewDict(h, ref) ==
    IF ref = None \/ h[ref[1]] = <<>>
    THEN [ref |-> Len(h) + 1, heap |-> Append(h, <<>>)]
    ELSE [ref |-> ref[1], heap |-> h]

\* RequestURL.__new__(cls, **kw) on heap h: the instance and the heap after
New(h, kw) ==
    LET p == OrNewDict(h, Arg(kw, "params", None))
        hd == OrNewDict(p.heap, Arg(kw, "headers", None))
    IN  [inst |-> [method   |-> Arg(kw, "method", "GET"),
                   host     |-> Arg(kw, "host", None),
                   path     |-> Arg(kw, "path", "/"),
                   params   |-> p.ref,
                   headers  |-> hd.ref,
                   body     |-> Arg(kw, "body", None),
                   username |-> Arg(kw, "username", None),
                   password |-> Arg(kw, "password", None),
                   port     |-> Arg(kw, "port", None),
                   protocol |-> Arg(kw, "protocol", "http")],
         heap |-> hd.heap]

\* RequestTuple._replace(self, **kw), for field names kw: a new tuple
replace(self, kw) == [f \in FieldSet |-> IF f \in DOMAIN kw THEN kw[f] ELSE self[f]]

\* with_params updating self.params in place, without the copy
with_params_in_place(h, self, d) ==
    [inst |-> replace(self, [params |-> self.params]),
     heap |-> [h EXCEPT ![self.params] = Update(h[self.params], h[d])]]

\* with_params(self, params_dict), params_dict the dict object at ref d
with_params(h, self, d) ==
    LET new_params == Update(h[self.params], h[d])
    IN  [inst |-> replace(self, [params |-> Len(h) + 1]),
         heap |-> Append(h, new_params)]

\* with_headers(self, headers_dict), headers_dict the dict object at ref d
with_headers(h, self, d) ==
    LET new_headers == Update(h[self.headers], h[d])
    IN  [inst |-> replace(self, [headers |-> Len(h) + 1]),
         heap |-> Append(h, new_headers)]

\* the join without the strips
newpath_unstripped(path, item) == path \o "/" \o item

\* the path of self[item] for a str item
newpath(path, item) == RStrip(path, "/") \o "/" \o LStrip(item, "/")

\* self[item] for a str item
getitem(self, item) == replace(self, [path |-> newpath(self.path, item)])

\* self[n] for an int n (0-based, negative from the end): tuple.__getitem__
getfield(self, n) == self[Fields[IF n < 0 THEN n + Len(Fields) + 1 ELSE n + 1]]

\* get_url(self) on heap h: <<url>>, or None where netloc += ... is a TypeError
get_url(h, self) ==
    IF self.host = None /\ self.port \notin {None, Some(80)} THEN None
    ELSE LET host == IF self.host = None THEN "" ELSE self.host[1]
             netloc == IF self.port \notin {None, Some(80)}
                       THEN host \o ":" \o IntToStr(self.port[1])
                       ELSE host
         IN  Some(urlunparse(self.protocol, netloc, self.path, urlencode(h[self.params])))

\* the kwargs from_url builds from the parsed url, params the new dict at ref p
url_kwargs(parsed, p) ==
    [host     |-> parsed.hostname,
     path     |-> parsed.path,
     params   |-> Some(p),
     port     |-> parsed.port,
     username |-> parsed.username,
     password |-> parsed.password,
     protocol |-> parsed.scheme]

\* from_url(cls, url, **extra) on heap h: the instance and the heap after
from_url(h, url, extra) ==
    LET parsed == urlparse(url)
        params == Update(<<>>, parse_qsl(parsed.query))
    IN  New(Append(h, params), Overlay(url_kwargs(parsed, Len(h) + 1), extra))

(***************************************************************************)
(* JsonRequest and Urllib3Request.                                         *)
(***************************************************************************)
\* json.dumps(x), x a tagged value: num, str, obj (an empty object) or null
json_dumps(x) ==
    CASE x.t = "num" -> x.v
      [] x.t = "str" -> "\"" \o x.v \o "\""
      [] x.t = "obj" -> "{}"
      [] x.t = "null" -> "null"

\* json.loads(text): <<value>>, or None where it raises ValueError
json_loads(text) ==
    LET t == RStrip(LStrip(text, " "), " ")
    IN  IF t # "" /\ \A i \in 1..Len(t) : Contains(Digits, At(t, i))
        THEN Some([t |-> "num", v |-> IntToStr(ParseInt(t))])
        ELSE IF Len(t) >= 2 /\ At(t, 1) = "\"" /\ At(t, Len(t)) = "\""
                /\ ~Contains(SubSeq(t, 2, Len(t) - 1), "\"")
        THEN Some([t |-> "str", v |-> SubSeq(t, 2, Len(t) - 1)])
        ELSE IF t = "{}" THEN Some([t |-> "obj", v |-> ""])
        ELSE IF t = "null" THEN Some([t |-> "null", v |-> ""])
        ELSE None

\* json_body(self, data) on heap h; the dict literal is a new dict object
json_body(h, self, data) ==
    LET lit == Append(h, <<(<<"Content-Type", "application/json">>)>>)
        w == with_headers(lit, self, Len(lit))
    IN  [inst |-> replace(w.inst, [body |-> Some(json_dumps(data))]), heap |-> w.heap]

\* put_json(self, data) on heap h
put_json(h, self, data) ==
    LET j == json_body(h, self, data)
    IN  [inst |-> replace(j.inst, [method |-> "PUT"]), heap |-> j.heap]

\* response.data[:1000] in the message of UnexpectedResponse
MessageData == 1000

Return(v) == [kind |-> "return", value |-> v]

Raise(exc) == [kind |-> "raise", exc |-> exc]

\* UnexpectedResponse(request, response), raised
UnexpectedResponse(request, response) ==
    [kind     |-> "raise",
     exc      |-> "UnexpectedResponse",
     request  |-> request,
     response |-> response,
     message  |-> <<response.status, response.reason, Take(response.data, MessageData)>>]

\* HTTPHeaderDict.get(name, default): header names compare without case
HeaderGet(headers, name, default) ==
    LET hits == {n \in 1..Len(headers) : Lower(headers[n][1]) = Lower(name)}
    IN  IF hits = {} THEN default ELSE headers[CHOOSE n \in hits : TRUE][2]

\* the status check letting every status below 300 through
response_func_below_300(i, res) ==
    IF res.error # "" THEN Raise(res.error)
    ELSE IF res.status \div 100 > 2 THEN UnexpectedResponse(i, res)
    ELSE Return(res)

\* the body of the response property for request i, res what execute returned
response_func(i, res) ==
    IF res.error # "" THEN Raise(res.error)
    ELSE IF res.status \div 100 # 2 THEN UnexpectedResponse(i, res)
    ELSE Return(res)

\* json going through the status check of response first
json_func_status_checked(i, res) ==
    IF res.error # "" THEN Raise(res.error)
    ELSE IF res.status \div 100 # 2 \/ ~StartsWith(HeaderGet(res.headers, "content-type", ""),
                                                   "application/json")
    THEN UnexpectedResponse(i, res)
    ELSE IF json_loads(res.data) = None THEN Raise("ValueError")
    ELSE Return(json_loads(res.data)[1])

\* the body of json for request i, res what execute returned
json_func(i, res) ==
    IF res.error # "" THEN Raise(res.error)
    ELSE LET content_type == HeaderGet(res.headers, "content-type", "")
         IN  IF ~StartsWith(content_type, "application/json")
             THEN UnexpectedResponse(i, res)
             ELSE IF json_loads(res.data) = None THEN Raise("ValueError")
             ELSE Return(json_loads(res.data)[1])

\* response as a cached_property
response_get_cached(d, i, res) ==
    IF "response" \in Keys(d)
    THEN [out |-> Return(Lookup(d, "response")), dict |-> d, ran |-> FALSE]
    ELSE [out  |-> response_func(i, res),
          dict |-> IF response_func(i, res).kind = "return"
                   THEN SetItem(d, "response", res) ELSE d,
          ran  |-> TRUE]

\* request.response with d the instance __dict__: a plain property, its body
\* runs on every read.  ran: whether execute was called
response_get(d, i, res) == [out |-> response_func(i, res), dict |-> d, ran |-> TRUE]

\* json as a plain property
json_get_uncached(d, i, res) == [out |-> json_func(i, res), dict |-> d, ran |-> TRUE]

\* request.json with d the instance __dict__: a cached_property, a non-data
\* descriptor, so an entry of the instance __dict__ is found first; __get__
\* stores what the body returns and stores nothing when it raises
json_get(d, i, res) ==
    IF "json" \in Keys(d)
    THEN [out |-> Return(Lookup(d, "json")), dict |-> d, ran |-> FALSE]
    ELSE LET out == json_func(i, res)
         IN  [out  |-> out,
              dict |-> IF out.kind = "return" THEN SetItem(d, "json", out.value) ELSE d,
              ran  |-> TRUE]

\* the instance __dict__ of a tuple made by _replace from one whose is d
derived_dict(d) == <<>>

\* the http property run without interruption: the handle and the count after
http_prop(h, n) ==
    IF h = None THEN [http |-> Some(n + 1), handles |-> n + 1]
    ELSE [http |-> h, handles |-> n]

(***************************************************************************)
(* What the callers and the transport supply.                              *)
(***************************************************************************)
\* the dict objects the callers own: heap[1], heap[2], heap[3]
CallerDicts == << <<(<<"x", "1">>)>>, << <<"x", "2">>, <<"y", "1">> >>, <<>> >>

ClientUrl == "http://127.0.0.1:19009/"

\* from_url(url, **extra) as the callers write it: <<url, extra>>
FromUrlArgs == {<<"a", <<>>>>,
                <<"http://u:p@a.b.c.com:90/abc?yes=1#frag", [body |-> Some("a")]>>,
                <<"http://a.b/", [headers |-> Some(2), params |-> Some(3)]>>}

ReplaceArgs == {[path |-> "b"], [params |-> 1], [nosuch |-> "b"]}

Threads == 1..NThreads

\* every text of at most n characters of alphabet
RECURSIVE Texts(_, _)
Texts(alphabet, n) ==
    IF n = 0 THEN {""}
    ELSE LET T == Texts(alphabet, n - 1) IN T \cup {t \o c : t \in T, c \in alphabet}

PathTexts == Texts({"a", "/"}, MaxPathLen)

ItemTexts == Texts({"b", "/"}, MaxPathLen)

\* URLs with a scheme, a host, a port, a path and a query
WellFormedUrls ==
    {scheme \o "://" \o userinfo \o host \o ":" \o port \o path \o "?" \o query \o fragment :
        scheme \in {"http", "https", "HTTP"}, userinfo \in {"", "u:p@"},
        host \in {"a.b", "A.b"}, port \in {"80", "90", "443", "080"},
        path \in {"/", "/abc", "/a/b/"},
        query \in {"yes=1", "x=a+b&y=%26", "x=1&x=2", "k=&x=1"}, fragment \in {"", "#f"}}

Response(status, headers, data) ==
    [error |-> "", status |-> status, reason |-> IF status = 200 THEN "OK" ELSE "Other",
     headers |-> headers, data |-> data]

\* urlopen raising instead of returning a response
TransportError ==
    [error |-> "TransportError", status |-> 0, reason |-> "", headers |-> <<>>, data |-> ""]

ContentType(c) == <<(<<"Content-Type", c>>)>>

ContentTypes == {"application/json", "application/json; charset=utf-8", "application/jsonp",
                 "Application/JSON", "text/plain", "text/application/json", ""}

HeaderSets == {<<>>, <<(<<"content-type", "application/json">>)>>}
              \cup {ContentType(c) : c \in ContentTypes}

Bodies == {"1", " 1 ", "null", "{}", "\"a\"", "ok"}

StatusCodes == 100..599

SmallResponses ==
    {Response(200, ContentType("application/json"), "1"),
     Response(200, ContentType("text/plain"), "ok"),
     Response(404, ContentType("application/json"), "null"),
     TransportError}

SweepResponses ==
    {Response(s, h, "1") : s \in StatusCodes, h \in {<<>>, ContentType("application/json")}}
    \cup {Response(s, h, b) : s \in {200, 204, 301, 404, 500}, h \in HeaderSets, b \in Bodies}

(***************************************************************************)
(* The state and the operations on it.                                     *)
(***************************************************************************)
\* calls[i] of a new instance: how it was made, and nothing run on it yet
NewCalls(op, self, arg) ==
    [made |-> [op |-> op, self |-> self, arg |-> arg],
     n |-> 0, urlopen |-> 0, response |-> 0, json |-> 0, jsonRaised |-> 0, jsonVal |-> None]

\* what last keeps of the state before a construction or a derivation
Pre == [insts |-> insts, heap |-> heap]

Did(op, self, arg, out, pre) ==
    last' = [op |-> op, self |-> self, arg |-> arg, out |-> out, pre |-> pre]

Init ==
    /\ insts = <<>>
    /\ heap = CallerDicts
    /\ idict = <<>>
    /\ calls = <<>>
    /\ last = [op |-> "init", self |-> 0, arg |-> <<>>, out |-> <<>>, pre |-> <<>>]
    /\ http = None
    /\ handles = 0
    /\ pc = [t \in Threads |-> [at |-> "idle", val |-> 0]]
    /\ got = [t \in Threads |-> <<>>]

\* the new instance r.inst, made on heap r.heap, joins the state
Made(op, self, arg, r, d) ==
    /\ Len(insts) < MaxInst
    /\ insts' = Append(insts, r.inst)
    /\ heap' = r.heap
    /\ idict' = Append(idict, d)
    /\ calls' = Append(calls, NewCalls(op, self, arg))
    /\ Did(op, self, arg, Return(Len(insts) + 1), Pre)
    /\ UNCHANGED <<http, handles, pc, got>>

\* an operation that raises or only reads
Only(op, self, arg, out) ==
    /\ Did(op, self, arg, out, Pre)
    /\ UNCHANGED <<insts, heap, idict, calls, http, handles, pc, got>>

Construct(kw) == Made("new", 0, kw, New(heap, kw), <<>>)

FromUrl(url, extra) == Made("from_url", 0, <<url, extra>>, from_url(heap, url, extra), <<>>)

WithParams(i, d) ==
    Made("with_params", i, d, with_params(heap, insts[i], d), derived_dict(idict[i]))

WithHeaders(i, d) ==
    Made("with_headers", i, d, with_headers(heap, insts[i], d), derived_dict(idict[i]))

Replace(i, kw) ==
    IF DOMAIN kw \subseteq FieldSet
    THEN Made("replace", i, kw, [inst |-> replace(insts[i], kw), heap |-> heap],
              derived_dict(idict[i]))
    ELSE Only("replace", i, kw, Raise("ValueError"))

GetItem(i, item) ==
    Made("getitem", i, item, [inst |-> getitem(insts[i], item), heap |-> heap],
         derived_dict(idict[i]))

GetField(i, n) ==
    IF n \in (0 - Len(Fields))..(Len(Fields) - 1)
    THEN Only("getfield", i, n, Return(getfield(insts[i], n)))
    ELSE Only("getfield", i, n, Raise("IndexError"))

JsonBody(i, data) ==
    Made("json_body", i, data, json_body(heap, insts[i], data), derived_dict(idict[i]))

PutJson(i, data) ==
    Made("put_json", i, data, put_json(heap, insts[i], data), derived_dict(idict[i]))

GetUrl(i) ==
    Only("get_url", i, <<>>,
         IF get_url(heap, insts[i]) = None THEN Raise("TypeError")
         ELSE Return(get_url(heap, insts[i])[1]))

\* what execute gives for request i when the transport would answer res:
\* get_url raising comes first, and then nothing is sent
execute(i, res) ==
    IF get_url(heap, insts[i]) = None
    THEN [res |-> [TransportError EXCEPT !.error = "TypeError"], sent |-> FALSE]
    ELSE [res |-> res, sent |-> TRUE]

\* what a read records of the transport: whether it was asked, and its answer
Asked(sent, res) == [sent |-> sent, res |-> IF sent THEN res ELSE TransportError]

\* the reads made so far of the first k instances
RECURSIVE Reads(_)
Reads(k) == IF k = 0 THEN 0 ELSE Reads(k - 1) + calls[k].n

\* a read of an accessor of request i that gave g, the transport answering res
Accessed(op, i, g, sent, res) ==
    LET hp == IF sent THEN http_prop(http, handles)
              ELSE [http |-> http, handles |-> handles]
        ok == g.out.kind = "return"
        unexpected == g.out.kind = "raise" /\ g.out.exc = "UnexpectedResponse"
    IN  /\ Reads(Len(insts)) < MaxAccess
        /\ idict' = [idict EXCEPT ![i] = g.dict]
        /\ calls' = [calls EXCEPT ![i] =
              [made       |-> @.made,
               n          |-> @.n + 1,
               urlopen    |-> @.urlopen + (IF sent THEN 1 ELSE 0),
               response   |-> @.response + (IF op = "response" /\ ok THEN 1 ELSE 0),
               json       |-> @.json + (IF op = "json" /\ ok THEN 1 ELSE 0),
               jsonRaised |-> @.jsonRaised + (IF op = "json" /\ unexpected THEN 1 ELSE 0),
               jsonVal    |-> IF op = "json" /\ ok /\ @.jsonVal = None
                              THEN Some(g.out.value) ELSE @.jsonVal]]
        /\ http' = hp.http
        /\ handles' = hp.handles
        /\ Did(op, i, Asked(sent, res), g.out, [calls |-> calls[i]])
        /\ UNCHANGED <<insts, heap, pc, got>>

Execute(i, res) ==
    LET e == execute(i, res)
    IN  Accessed("execute", i,
                 [out |-> IF e.res.error # "" THEN Raise(e.res.error) ELSE Return(e.res),
                  dict |-> idict[i]],
                 e.sent, res)

ResponseRead(i, res) ==
    LET e == execute(i, res)
        g == response_get(idict[i], i, e.res)
    IN  Accessed("response", i, g, g.ran /\ e.sent, res)

JsonRead(i, res) ==
    LET e == execute(i, res)
        g == json_get(idict[i], i, e.res)
    IN  Accessed("json", i, g, g.ran /\ e.sent, res)

\* the http property, one thread and one step at a time
HttpEnter(t) ==
    /\ pc[t].at = "idle"
    /\ Len(got[t]) < MaxReads
    /\ pc' = [pc EXCEPT ![t] = [at |-> "hasattr", val |-> 0]]
    /\ UNCHANGED <<insts, heap, idict, calls, last, http, handles, got>>

HttpHasattr(t) ==
    /\ pc[t].at = "hasattr"
    /\ pc' = [pc EXCEPT ![t] = [at |-> IF http = None THEN "create" ELSE "return", val |-> 0]]
    /\ UNCHANGED <<insts, heap, idict, calls, last, http, handles, got>>

HttpCreate(t) ==
    /\ pc[t].at = "create"
    /\ handles' = handles + 1
    /\ pc' = [pc EXCEPT ![t] = [at |-> "assign", val |-> handles + 1]]
    /\ UNCHANGED <<insts, heap, idict, calls, last, http, got>>

HttpAssign(t) ==
    /\ pc[t].at = "assign"
    /\ http' = Some(pc[t].val)
    /\ pc' = [pc EXCEPT ![t] = [at |-> "return", val |-> 0]]
    /\ UNCHANGED <<insts, heap, idict, calls, last, handles, got>>

HttpReturn(t) ==
    /\ pc[t].at = "return"
    /\ got' = [got EXCEPT ![t] = Append(@, http[1])]
    /\ pc' = [pc EXCEPT ![t] = [at |-> "idle", val |-> 0]]
    /\ UNCHANGED <<insts, heap, idict, calls, last, http, handles>>

Live == 1..Len(insts)

(***************************************************************************)
(* The specifications.                                                     *)
(***************************************************************************)
\* construction and derivation
Next ==
    \/ insts = <<>> /\ \E a \in FromUrlArgs : FromUrl(a[1], a[2])
    \/ \E i \in Live, d \in {1, 2} : WithParams(i, d)
    \/ \E i \in Live, d \in {1} : WithHeaders(i, d)
    \/ \E i \in Live, kw \in ReplaceArgs : Replace(i, kw)
    \/ \E i \in Live : GetItem(i, "/b/")
    \/ \E i \in Live, n \in {-8, 10} : GetField(i, n)
    \/ \E i \in Live : JsonBody(i, [t |-> "num", v |-> "1"])
    \/ \E i \in Live : PutJson(i, [t |-> "str", v |-> "a"])

Spec == Init /\ [][Next]_vars

\* path append on every short path and item
NextPath ==
    \/ insts = <<>> /\ \E p \in PathTexts : Construct([path |-> p])
    \/ insts = <<>> /\ FromUrl("a", <<>>)
    \/ Len(insts) < MaxPathInst /\ \E i \in Live, item \in ItemTexts : GetItem(i, item)

SpecPath == Init /\ [][NextPath]_vars

\* the URL codec on well-formed URLs
NextUrl ==
    \/ insts = <<>> /\ \E u \in WellFormedUrls : FromUrl(u, <<>>)
    \/ \E i \in Live : GetUrl(i)

SpecUrl == Init /\ [][NextUrl]_vars

\* the accessors of a client and of requests derived from it
NextExec ==
    \/ insts = <<>> /\ FromUrl(ClientUrl, <<>>)
    \/ Len(insts) < MaxExecInst /\ \E i \in Live : GetItem(i, "fail")
    \/ \E i \in Live, res \in SmallResponses : Execute(i, res)
    \/ \E i \in Live, res \in SmallResponses : ResponseRead(i, res)
    \/ \E i \in Live, res \in SmallResponses : JsonRead(i, res)

SpecExec == Init /\ [][NextExec]_vars

\* the first read of an accessor of a client, against every status and
\* content type
NextSweep ==
    \/ insts = <<>> /\ FromUrl(ClientUrl, <<>>)
    \/ \E i \in Live, res \in SweepResponses : calls[i].n = 0 /\ ResponseRead(i, res)
    \/ \E i \in Live, res \in SweepResponses : calls[i].n = 0 /\ JsonRead(i, res)

SpecSweep == Init /\ [][NextSweep]_vars

\* threads reading the http property
NextHttp ==
    \/ \E t \in Threads : HttpEnter(t)
    \/ \E t \in Threads : HttpHasattr(t)
    \/ \E t \in Threads : HttpCreate(t)
    \/ \E t \in Threads : HttpAssign(t)
    \/ \E t \in Threads : HttpReturn(t)

SpecHttp == Init /\ [][NextHttp]_vars

(***************************************************************************)
(* The claims.                                                             *)
(***************************************************************************)
DerivationOps == {"with_params", "with_headers", "replace", "getitem", "json_body", "put_json"}

\* the last operation was op and returned
Returned(op) == last.op = op /\ last.out.kind = "return"

\* the last operation was a derivation that returned a new instance
Derived == last.op \in DerivationOps /\ last.out.kind = "return"

\* s without its trailing slashes, said without rstrip: the prefix of s
\* that does not end in '/' and is followed by slashes only
IsRightStripped(t, s) ==
    /\ Len(t) <= Len(s)
    /\ Take(s, Len(t)) = t
    /\ \A n \in (Len(t) + 1)..Len(s) : At(s, n) = "/"
    /\ (t = "" \/ At(t, Len(t)) # "/")

\* s without its leading slashes, said without lstrip
IsLeftStripped(t, s) ==
    /\ Len(t) <= Len(s)
    /\ Drop(s, Len(s) - Len(t)) = t
    /\ \A n \in 1..(Len(s) - Len(t)) : At(s, n) = "/"
    /\ (t = "" \/ At(t, 1) # "/")

Prefixes(s) == {Take(s, n) : n \in 0..Len(s)}

Suffixes(s) == {Drop(s, n) : n \in 0..Len(s)}

\* new is old with the items of extra laid over it
IsOverlay(new, old, extra) ==
    /\ Keys(new) = Keys(old) \cup Keys(extra)
    /\ \A k \in Keys(extra) : Lookup(new, k) = Lookup(extra, k)
    /\ \A k \in Keys(old) \ Keys(extra) : Lookup(new, k) = Lookup(old, k)

\* C1: a derivation (with_params, with_headers, replace, path append,
\* json_body, put_json) returns an instance that is not the one it was called
\* on nor any that existed, and leaves the ten fields of the original, the
\* contents of its params and headers dicts included, as they were.
C1_DerivationLeavesOriginal ==
    Derived =>
        /\ last.out.value # last.self
        /\ last.out.value \notin 1..Len(last.pre.insts)
        /\ insts[last.self] = last.pre.insts[last.self]
        /\ heap[insts[last.self].params] = last.pre.heap[last.pre.insts[last.self].params]
        /\ heap[insts[last.self].headers] = last.pre.heap[last.pre.insts[last.self].headers]

\* a with_params that gave the new instance params the original does not have
C1_Witness ==
    /\ Returned("with_params")
    /\ ~DictEq(heap[insts[last.out.value].params], heap[insts[last.self].params])

\* C2: no two distinct instances hold the same params dict object or the
\* same headers dict object.
C2_NoSharedDict ==
    \A i \in Live, j \in Live :
        i # j => /\ insts[i].params # insts[j].params
                 /\ insts[i].headers # insts[j].headers

C4_StatusClassification ==
    (last.op = "response" /\ last.arg.sent /\ last.arg.res.error = "") =>
        /\ last.arg.res.status \in 200..299 =>
              (last.out.kind = "return" /\ last.out.value = last.arg.res)
        /\ last.arg.res.status \notin 200..299 =>
              /\ last.out.kind = "raise"
              /\ last.out.exc = "UnexpectedResponse"
              /\ last.out.request = last.self
              /\ last.out.response = last.arg.res

\* a read of response raised for a status at the edge of the 2xx range
C4_Witness ==
    /\ last.op = "response"
    /\ last.arg.sent
    /\ last.arg.res.status = 199
    /\ last.out.kind = "raise"
    /\ last.out.exc = "UnexpectedResponse"

\* C5: when the body is valid JSON, a read of json that asks the transport
\* returns the parsed body exactly when the content-type header starts with
\* application/json (no header: it does not), whatever the status, and
\* raises UnexpectedResponse otherwise.
C5_ContentTypeGate ==
    (/\ last.op = "json"
     /\ last.arg.sent
     /\ last.arg.res.error = ""
     /\ json_loads(last.arg.res.data) # None) =>
        IF \E n \in 1..Len(last.arg.res.headers) :
              /\ Lower(last.arg.res.headers[n][1]) = "content-type"
              /\ StartsWith(last.arg.res.headers[n][2], "application/json")
        THEN /\ last.out.kind = "return"
             /\ last.out.value = json_loads(last.arg.res.data)[1]
        ELSE /\ last.out.kind = "raise"
             /\ last.out.exc = "UnexpectedResponse"
             /\ last.out.request = last.self
             /\ last.out.response = last.arg.res

\* a 404 with a JSON content type was parsed and returned
C5_Witness ==
    /\ Returned("json")
    /\ last.arg.sent
    /\ last.arg.res.status = 404

\* C6: at most one handle is ever created, and every read of the http
\* property by every thread returns that same handle.
C6_SingleHandle ==
    /\ handles <= 1
    /\ \A t \in Threads, u \in Threads :
          \A m \in 1..Len(got[t]), n \in 1..Len(got[u]) : got[t][m] = got[u][n]

\* C7: the URL get_url builds for an instance made by from_url(url) parses
\* to the same host, port, path and query parameters as url.
C7_RoundTrip ==
    (last.op = "get_url" /\ calls[last.self].made.op = "from_url") =>
        /\ last.out.kind = "return"
        /\ urlparse(last.out.value).hostname = urlparse(calls[last.self].made.arg[1]).hostname
        /\ urlparse(last.out.value).port = urlparse(calls[last.self].made.arg[1]).port
        /\ urlparse(last.out.value).path = urlparse(calls[last.self].made.arg[1]).path
        /\ DictEq(Update(<<>>, parse_qsl(urlparse(last.out.value).query)),
                  Update(<<>>, parse_qsl(urlparse(calls[last.self].made.arg[1]).query)))

\* C8: with_params(extra) gives params with the keys of the original and of
\* extra, extra's value for every key of extra and the original's for every
\* other key, leaves extra as it was and every other field as in the
\* original; with_headers does the same on headers.
C8_MergeOverlay ==
    /\ Returned("with_params") =>
          /\ IsOverlay(heap[insts[last.out.value].params],
                       last.pre.heap[last.pre.insts[last.self].params],
                       last.pre.heap[last.arg])
          /\ heap[last.arg] = last.pre.heap[last.arg]
          /\ \A f \in FieldSet \ {"params"} :
                insts[last.out.value][f] = last.pre.insts[last.self][f]
    /\ Returned("with_headers") =>
          /\ IsOverlay(heap[insts[last.out.value].headers],
                       last.pre.heap[last.pre.insts[last.self].headers],
                       last.pre.heap[last.arg])
          /\ heap[last.arg] = last.pre.heap[last.arg]
          /\ \A f \in FieldSet \ {"headers"} :
                insts[last.out.value][f] = last.pre.insts[last.self][f]

\* a chain of two merges with the key x in both: the later value is kept
C8_Witness ==
    /\ Returned("with_params")
    /\ last.arg = 2
    /\ calls[last.self].made.op = "with_params"
    /\ calls[last.self].made.arg = 1
    /\ Lookup(heap[insts[last.self].params], "x") = "1"
    /\ Lookup(heap[insts[last.out.value].params], "x") = "2"

\* C9 as claimed: the path after a path append is the path without its
\* trailing slashes, one '/', and the item without its leading slashes, and
\* it holds no '//'.
C9_NoDoubleSlash ==
    Returned("getitem") =>
        /\ \E l \in Prefixes(last.pre.insts[last.self].path), r \in Suffixes(last.arg) :
              /\ IsRightStripped(l, last.pre.insts[last.self].path)
              /\ IsLeftStripped(r, last.arg)
              /\ insts[last.out.value].path = l \o "/" \o r
        /\ ~Contains(insts[last.out.value].path, "//")

\* C9 as amended: the path after a path append is the path without its
\* trailing slashes, one '/', and the item without its leading slashes; it
\* holds a '//' only where the path or the item, so stripped, holds one.
C9_JoinWithOneSlash ==
    Returned("getitem") =>
        \E l \in Prefixes(last.pre.insts[last.self].path), r \in Suffixes(last.arg) :
            /\ IsRightStripped(l, last.pre.insts[last.self].path)
            /\ IsLeftStripped(r, last.arg)
            /\ insts[last.out.value].path = l \o "/" \o r
            /\ Contains(insts[last.out.value].path, "//")
                  => (Contains(l, "//") \/ Contains(r, "//"))

\* 'a/' joined with '/b' gave 'a/b'
C9_Witness ==
    /\ Returned("getitem")
    /\ last.pre.insts[last.self].path = "a/"
    /\ last.arg = "/b"
    /\ insts[last.out.value].path = "a/b"

\* C10 as claimed: once a read of json on an instance has completed, with a
\* value or with UnexpectedResponse, a later read of json on that instance
\* does not dispatch to the transport again.
C10_OutcomeCached ==
    (/\ last.op = "json"
     /\ last.pre.calls.json + last.pre.calls.jsonRaised >= 1) =>
        calls[last.self].urlopen = last.pre.calls.urlopen

\* C10 as amended: once a read of json on an instance has returned a value,
\* every later read of json on it returns that value without dispatching
\* again; while none has returned, also after one that raised
\* UnexpectedResponse, a read dispatches again; and an instance derived from
\* one that holds a value starts with none.
C10_ValueCached ==
    /\ (last.op = "json" /\ last.pre.calls.json >= 1) =>
          /\ calls[last.self].urlopen = last.pre.calls.urlopen
          /\ last.out.kind = "return"
          /\ last.out.value = last.pre.calls.jsonVal[1]
    /\ (last.op = "json" /\ last.pre.calls.json = 0) =>
          calls[last.self].urlopen = last.pre.calls.urlopen + 1
    /\ Derived => idict[last.out.value] = <<>>

\* a second read of json on an instance whose first read returned a value
C10_Witness ==
    /\ Returned("json")
    /\ last.pre.calls.json >= 1
    /\ ~last.arg.sent

=============================================================================
